---- MODULE Spec2Model ----
(***************************************************************************)
(* Drone_Nav: the orchestration loop of simulation_main.py driving        *)
(* NavigationSystem (navigation.py), Drone (drone.py) and VisionSystem    *)
(* (vision_system.py).                                                     *)
(*                                                                         *)
(* Units.  Time is counted in units of 1/UnitsPerSec second.  Horizontal   *)
(* positions are <<east, north>> in decimetres on the local tangent plane  *)
(* (geopy's geodesic distance / destination and calculate_bearing are      *)
(* evaluated on that plane, angles in whole degrees).  Altitude is in      *)
(* centimetres.  Battery is in units of 1/(100*UnitsPerSec) percent, so    *)
(* that battery_drain_rate * dt is exactly dt units.                       *)
(*                                                                         *)
(* Wall clock.  The code keeps wall-clock readings (time.time(),           *)
(* pygame.time.get_ticks()) and only ever reads them through the           *)
(* difference "now - reading".  A reading is therefore kept as its age:    *)
(* the wall-clock time that has passed since it was taken, saturating at   *)
(* AgeCap, which lies above every threshold an age is compared with.       *)
(* None stands for a reading never taken (hover_start_time,                *)
(* match_found_time), NotStarted for search_start_time = 0.                *)
(***************************************************************************)
EXTENDS Integers, Sequences, FiniteSets, TLC

VARIABLES
  drone,                   \* the Drone object
  nav,                     \* the NavigationSystem object
  vision,                  \* the VisionSystem object
  match_attempted,         \* simulation_main.py: match_attempted
  last_search_match_time,  \* simulation_main.py: its age (see Wall clock)
  raised,                  \* the exception that ended the program, or "none"
  env,                     \* the machine and the scene: the frame period, the
                           \* attempts made at this waypoint, a failed attempt
  last                     \* what the last loop iteration did

vars == <<drone, nav, vision, match_attempted, last_search_match_time,
          raised, env, last>>

----------------------------------------------------------------------------
(* Bounds of the model. *)

\* The frame period dt of a run is one of 1..MaxDt time units.
MaxDt == 4

\* The camera view can match the reference only at one of the first
\* MaxMatchAt localization attempts made for a waypoint.
MaxMatchAt == 2

\* Routes have 2..MaxWaypoints waypoints (the start position included).
MaxWaypoints == 3

----------------------------------------------------------------------------
(* Scales and program constants. *)

UnitsPerSec == 2

\* Python's None (distance_to_wp, bearing_to_wp, hover_start_time,
\* match_found_time).
None == -1

\* search_start_time = 0: no search segment is running.
NotStarted == -2

Max(a, b) == IF a >= b THEN a ELSE b

Min(a, b) == IF a <= b THEN a ELSE b

Abs(a) == IF a >= 0 THEN a ELSE -a

\* The element of a one-element set.
Only(S) == CHOOSE x \in S : TRUE

\* drone.py, Drone.__init__
CruiseVelocity == 150

SearchVelocity == 50

AscentSpeed == 500

DescentSpeed == 150

MaxSearchRadius == 200

FullBattery == 100 * 100 * UnitsPerSec

\* simulation_main.py: Drone(start_pos_lat_lon=start_pos, start_alt=10.0)
StartAlt == 1000

\* drone.py, Drone.update
BrakingDistance == 300

MinVelocity == 30

InitialSearchRadius == 50

RadiusRate == 10

AngleRate == 60

LandedAltitude == 10

HoverSeconds == 2

MatchPauseSeconds == 1

SegmentSeconds == 5

FailsafeSeconds == 30

\* navigation.py, NavigationSystem.__init__
WaypointThreshold == 50

\* simulation_main.py: SEARCH_MATCH_INTERVAL = 0.5, in tenths of a second
SearchMatchIntervalTenths == 5

\* vision_system.py
ConfidenceThresholdPct == 25

ConfidenceBaseline == 100

RatioTenths == 7

AgeCap == SegmentSeconds * UnitsPerSec + 1

\* Wall-clock age of a reading after w more units have passed.
Aged(t, w) == IF t < 0 THEN t ELSE Min(t + w, AgeCap)

----------------------------------------------------------------------------
(* Plane geometry standing for geopy and math. *)

TrigScale == 10000

\* sin of 0..90 degrees, scaled by TrigScale.
SinTable ==
  <<0, 175, 349, 523, 698, 872, 1045, 1219, 1392, 1564,
    1736, 1908, 2079, 2250, 2419, 2588, 2756, 2924, 3090, 3256,
    3420, 3584, 3746, 3907, 4067, 4226, 4384, 4540, 4695, 4848,
    5000, 5150, 5299, 5446, 5592, 5736, 5878, 6018, 6157, 6293,
    6428, 6561, 6691, 6820, 6947, 7071, 7193, 7314, 7431, 7547,
    7660, 7771, 7880, 7986, 8090, 8192, 8290, 8387, 8480, 8572,
    8660, 8746, 8829, 8910, 8988, 9063, 9135, 9205, 9272, 9336,
    9397, 9455, 9511, 9563, 9613, 9659, 9703, 9744, 9781, 9816,
    9848, 9877, 9903, 9925, 9945, 9962, 9976, 9986, 9994, 9998,
    10000>>

Sin(deg) ==
  LET a == deg % 360
  IN  IF a <= 90 THEN SinTable[a + 1]
      ELSE IF a <= 180 THEN SinTable[180 - a + 1]
      ELSE IF a <= 270 THEN -SinTable[a - 180 + 1]
      ELSE -SinTable[360 - a + 1]

Cos(deg) == Sin(deg + 90)

Round(v) == (2 * v + TrigScale) \div (2 * TrigScale)

RECURSIVE SqrtBetween(_, _, _)
SqrtBetween(n, lo, hi) ==
  IF lo >= hi THEN lo
  ELSE Only({IF mid * mid <= n THEN SqrtBetween(n, mid, hi)
             ELSE SqrtBetween(n, lo, mid - 1)
               : mid \in {(lo + hi + 1) \div 2}})

ISqrt(n) == SqrtBetween(n, 0, Min(n, 46340))

\* geodesic(p, q).meters
Distance(p, q) ==
  Only({ISqrt(sq) : sq \in {(q[1] - p[1]) * (q[1] - p[1])
                              + (q[2] - p[2]) * (q[2] - p[2])}})

\* geodesic(meters=dist).destination(p, bearing)
Destination(p, bearing, dist) ==
  <<p[1] + Round(dist * Sin(bearing)), p[2] + Round(dist * Cos(bearing))>>

\* math.degrees(math.atan2(y, x)), in -180..180, y east and x north.
Atan2Deg(y, x) ==
  IF y = 0 /\ x = 0 THEN 0
  ELSE Only({IF y >= 0 /\ x >= 0 THEN a
             ELSE IF y >= 0 THEN 180 - a
             ELSE IF x >= 0 THEN -a
             ELSE a - 180
               : a \in {Cardinality({k \in 1..90 :
                            Sin(k) * Abs(x) <= Cos(k) * Abs(y)})}})

\* Mutant: the bearing is returned as atan2 gives it, not normalised to 0-360.
calculate_bearing_Unnormalised(p, q) ==
  Only({Atan2Deg(v[1], v[2]) : v \in {<<q[1] - p[1], q[2] - p[2]>>}})

calculate_bearing(p, q) ==
  Only({(Atan2Deg(v[1], v[2]) + 360) % 360
          : v \in {<<q[1] - p[1], q[2] - p[2]>>}})

----------------------------------------------------------------------------
(* navigation.py: NavigationSystem.  Waypoints are positions; Python's     *)
(* waypoints[i] is waypoints[i + 1] here.                                  *)

NavigationSystem(waypoints) ==
  [waypoints            |-> waypoints,
   current_waypoint_idx |-> 1,
   reached_destination  |-> ~(Len(waypoints) > 1),
   distance_to_wp       |-> None,
   bearing_to_wp        |-> None]

\* Result of a call: the navigator after it and the exception it raised.
nav_update(n, pos) ==
  IF n.reached_destination \/ Len(n.waypoints) = 0
    THEN [nav |-> [n EXCEPT !.distance_to_wp = None, !.bearing_to_wp = None],
          raised |-> "none"]
  ELSE IF n.current_waypoint_idx >= Len(n.waypoints)
    THEN [nav |-> n, raised |-> "IndexError"]
  ELSE LET target == n.waypoints[n.current_waypoint_idx + 1]
       IN  [nav |-> [n EXCEPT !.distance_to_wp = Distance(pos, target),
                              !.bearing_to_wp = calculate_bearing(pos, target)],
            raised |-> "none"]

\* Mutant: the index is incremented whether or not the route is completed.
advance_waypoint_Unguarded(n) ==
  LET idx == n.current_waypoint_idx + 1
  IN  [n EXCEPT !.current_waypoint_idx = idx,
                !.reached_destination = @ \/ (idx >= Len(n.waypoints))]

advance_waypoint(n) ==
  IF ~n.reached_destination
    THEN LET idx == n.current_waypoint_idx + 1
         IN  [n EXCEPT !.current_waypoint_idx = idx,
                       !.reached_destination = (idx >= Len(n.waypoints))]
    ELSE [n EXCEPT !.reached_destination = TRUE]

\* Mutant: the new route starts at index 1, as the constructor does.
set_new_route_SkipFirst(n, new_waypoints) ==
  [n EXCEPT !.waypoints = new_waypoints,
            !.current_waypoint_idx = 1,
            !.reached_destination = FALSE]

set_new_route(n, new_waypoints) ==
  [n EXCEPT !.waypoints = new_waypoints,
            !.current_waypoint_idx = 0,
            !.reached_destination = FALSE]

is_final_waypoint(n) == n.current_waypoint_idx = Len(n.waypoints) - 1

\* Mutant: reset clears the completion flag and keeps the index.
nav_reset_KeepIndex(n) == [n EXCEPT !.reached_destination = FALSE]

nav_reset(n) ==
  [n EXCEPT !.current_waypoint_idx = 0, !.reached_destination = FALSE]

----------------------------------------------------------------------------
(* drone.py: Drone.  A call's result is [drone, nav, raised]: the vehicle   *)
(* and the navigator after the call and the exception the call raised.      *)

\* class DroneState(Enum); a member is written as its name.
DroneState ==
  {"IDLE", "TAKING_OFF", "NAVIGATING", "HOVERING", "SEARCHING", "MATCH_FOUND",
   "RETURN_HOME", "LANDING", "LANDED"}

\* The Python str "TAKING_OFF", which is not DroneState.TAKING_OFF and
\* compares unequal to every member of the enum.
StrTakingOff == "str:TAKING_OFF"

Drone(start_pos_lat_lon, start_alt) ==
  [start_pos_lat_lon |-> start_pos_lat_lon,
   pos               |-> start_pos_lat_lon,
   z                 |-> 0,
   cruise_altitude   |-> start_alt,
   velocity          |-> CruiseVelocity,
   heading           |-> 0,
   battery           |-> FullBattery,
   state             |-> "TAKING_OFF",
   hover_start_time  |-> None,
   match_found_time  |-> None,
   search_start_time |-> NotStarted,
   search_radius     |-> None,
   search_angle      |-> 0,
   search_center     |-> <<0, 0>>,
   total_search_time |-> 0]

Result(d, n) == [drone |-> d, nav |-> n, raised |-> "none", returned |-> FALSE]

Raise(d, n, e) == [drone |-> d, nav |-> n, raised |-> e, returned |-> TRUE]

\* Mutant: landing is declared complete at once.
initiate_landing_Landed(d) ==
  IF d.state # "LANDING" THEN [d EXCEPT !.state = "LANDED"] ELSE d

\* Drone.initiate_landing()
initiate_landing(d) ==
  IF d.state # "LANDING" THEN [d EXCEPT !.state = "LANDING"] ELSE d

\* Mutant: confirming a match keeps the total search time.
confirm_match_KeepTotal(d) ==
  [d EXCEPT !.state = "MATCH_FOUND",
            !.match_found_time = 0,
            !.search_start_time = NotStarted]

\* Drone.confirm_match()
confirm_match(d) ==
  [d EXCEPT !.state = "MATCH_FOUND",
            !.match_found_time = 0,
            !.search_start_time = NotStarted,
            !.total_search_time = 0]

\* Drone.reset_position(new_pos_lat_lon, new_alt)
reset_position(d, new_pos_lat_lon, new_alt) ==
  [d EXCEPT !.pos = new_pos_lat_lon,
            !.z = 0,
            !.cruise_altitude = new_alt,
            !.state = StrTakingOff,
            !.velocity = CruiseVelocity,
            !.battery = FullBattery]

\* Mutant: the drain is not floored at 0.
DrainBattery_NoFloor(battery, dt) == battery - dt

\* self.battery = max(0, self.battery - self.battery_drain_rate * dt)
DrainBattery(battery, dt) == Max(0, battery - dt)

\* self.altitude = max(0, self.altitude)
ClampAltitude(z) == Max(0, z)

PhysicsAndBattery(d, dt) ==
  [d EXCEPT !.z = ClampAltitude(d.z), !.battery = DrainBattery(d.battery, dt)]

TakingOff(d, n, dt) ==
  LET z == d.z + (AscentSpeed * dt) \div UnitsPerSec
  IN  IF z >= d.cruise_altitude
        THEN Result([d EXCEPT !.z = d.cruise_altitude, !.state = "NAVIGATING"], n)
        ELSE Result([d EXCEPT !.z = z], n)

\* Mutant: the speed is scaled down to 0, without the floor of min_velocity.
current_velocity_NoFloor(velocity, distance_to_wp) ==
  IF distance_to_wp < BrakingDistance
    THEN velocity * Max(0, distance_to_wp)
    ELSE velocity * BrakingDistance

\* current_velocity of the NAVIGATING branch, times BrakingDistance (which
\* keeps min_velocity + (velocity - min_velocity) * speed_ratio an integer).
current_velocity(velocity, distance_to_wp) ==
  IF distance_to_wp < BrakingDistance
    THEN MinVelocity * BrakingDistance
           + (velocity - MinVelocity) * Max(0, distance_to_wp)
    ELSE velocity * BrakingDistance

\* distance_this_frame = current_velocity * dt
BrakedDistanceThisFrame(velocity, distance_to_wp, dt) ==
  (current_velocity(velocity, distance_to_wp) * dt)
    \div (BrakingDistance * UnitsPerSec)

\* Mutant: arrival is tested against twice the threshold.
Arrived_TwiceThreshold(n) ==
  n.distance_to_wp # None /\ n.distance_to_wp < 2 * WaypointThreshold

\* Mutant: arrival is tested against the braking distance.
Arrived_AtBrakingDistance(n) ==
  n.distance_to_wp # None /\ n.distance_to_wp < BrakingDistance

\* The arrival test of the NAVIGATING branch.
Arrived(n) ==
  n.distance_to_wp # None /\ n.distance_to_wp < WaypointThreshold

Navigating(d, n, dt) ==
  IF n.reached_destination THEN Result(d, n)
  ELSE IF n.distance_to_wp = None THEN Raise(d, n, "TypeError")
  ELSE LET heading == IF n.bearing_to_wp # None THEN n.bearing_to_wp
                      ELSE d.heading
           distance_this_frame ==
             BrakedDistanceThisFrame(d.velocity, n.distance_to_wp, dt)
           distance_moved == Min(distance_this_frame, n.distance_to_wp)
           pos == IF distance_moved > 0
                    THEN Destination(d.pos, heading, distance_moved)
                    ELSE d.pos
       IN  Result([d EXCEPT !.heading = heading,
                            !.pos = pos,
                            !.state = IF Arrived(n) THEN "HOVERING" ELSE @], n)

Hovering(d, n) ==
  IF d.hover_start_time = None THEN Raise(d, n, "TypeError") ELSE Result(d, n)

\* Mutant: the segment ends at 5 s, not after it.
SegmentTimedOut_AtLimit(time_in_search) ==
  time_in_search >= SegmentSeconds * UnitsPerSec

\* The segment timeout test of the SEARCHING branch.
SegmentTimedOut(time_in_search) == time_in_search > SegmentSeconds * UnitsPerSec

\* Mutant: the failsafe trips at the limit, not above it.
FailsafeTripped_AtLimit(total_search_time) ==
  total_search_time >= FailsafeSeconds * UnitsPerSec

\* The failsafe test of the SEARCHING branch.
FailsafeTripped(total_search_time) ==
  total_search_time > FailsafeSeconds * UnitsPerSec

Searching(d, n, dt) ==
  LET total == d.total_search_time + dt
      init == d.search_start_time = NotStarted
      start == IF init THEN 0 ELSE d.search_start_time
      radius0 == IF init THEN InitialSearchRadius ELSE d.search_radius
      angle0 == IF init THEN 0 ELSE d.search_angle
      center == IF init THEN d.pos ELSE d.search_center
      time_in_search == start
      radius == IF radius0 < MaxSearchRadius
                  THEN radius0 + (RadiusRate * dt) \div UnitsPerSec
                  ELSE radius0
      angle == angle0 + (AngleRate * dt) \div UnitsPerSec
      heading == Only({calculate_bearing(d.pos, target)
                         : target \in {Destination(center, angle, radius)}})
      pos == Only({Destination(d.pos, h, (SearchVelocity * dt) \div UnitsPerSec)
                     : h \in {heading}})
      moved == [d EXCEPT !.total_search_time = total,
                         !.search_start_time = start,
                         !.search_radius = radius,
                         !.search_angle = angle,
                         !.search_center = center,
                         !.heading = heading,
                         !.pos = pos]
  IN  IF SegmentTimedOut(time_in_search)
        THEN [Result([moved EXCEPT !.state = "HOVERING",
                                   !.hover_start_time = 0,
                                   !.search_start_time = NotStarted], n)
                EXCEPT !.returned = TRUE]
      ELSE IF FailsafeTripped(total)
        THEN Result([moved EXCEPT !.state = "RETURN_HOME",
                                  !.total_search_time = 0],
                    set_new_route(n, <<d.start_pos_lat_lon>>))
      ELSE Result(moved, n)

\* Mutant: the pause ends at 1 s, not after it.
MatchFound_AtLimit(d, n) ==
  IF d.match_found_time = None THEN Raise(d, n, "TypeError")
  ELSE IF d.match_found_time >= MatchPauseSeconds * UnitsPerSec
    THEN IF is_final_waypoint(n)
           THEN Result(initiate_landing(d), n)
           ELSE Result([d EXCEPT !.state = "NAVIGATING"], advance_waypoint(n))
  ELSE Result(d, n)

MatchFound(d, n) ==
  IF d.match_found_time = None THEN Raise(d, n, "TypeError")
  ELSE IF d.match_found_time > MatchPauseSeconds * UnitsPerSec
    THEN IF is_final_waypoint(n)
           THEN Result(initiate_landing(d), n)
           ELSE Result([d EXCEPT !.state = "NAVIGATING"], advance_waypoint(n))
  ELSE Result(d, n)

\* Mutant: the motion towards home is not capped at the distance left.
ReturnHome_NoCap(d, n, dt) ==
  IF n.reached_destination THEN Result(initiate_landing(d), n)
  ELSE LET heading == IF n.bearing_to_wp # None THEN n.bearing_to_wp
                      ELSE d.heading
           distance_moved == (d.velocity * dt) \div UnitsPerSec
           pos == IF distance_moved > 0
                    THEN Destination(d.pos, heading, distance_moved)
                    ELSE d.pos
       IN  Result([d EXCEPT !.heading = heading, !.pos = pos], n)

\* The RETURN_HOME branch of Drone.update.
ReturnHome(d, n, dt) ==
  IF n.reached_destination THEN Result(initiate_landing(d), n)
  ELSE LET heading == IF n.bearing_to_wp # None THEN n.bearing_to_wp
                      ELSE d.heading
           distance_this_frame == (d.velocity * dt) \div UnitsPerSec
           distance_moved == IF n.distance_to_wp # None
                               THEN Min(distance_this_frame, n.distance_to_wp)
                               ELSE distance_this_frame
           pos == IF distance_moved > 0
                    THEN Destination(d.pos, heading, distance_moved)
                    ELSE d.pos
       IN  Result([d EXCEPT !.heading = heading, !.pos = pos], n)

\* Mutant: touching down leaves the velocity as it was.
Landing_KeepVelocity(d, n, dt) ==
  LET z == d.z - (DescentSpeed * dt) \div UnitsPerSec
  IN  IF z <= LandedAltitude
        THEN Result([d EXCEPT !.z = 0, !.state = "LANDED"], n)
        ELSE Result([d EXCEPT !.z = z], n)

\* The LANDING branch of Drone.update.
Landing(d, n, dt) ==
  LET z == d.z - (DescentSpeed * dt) \div UnitsPerSec
  IN  IF z <= LandedAltitude
        THEN Result([d EXCEPT !.z = 0, !.state = "LANDED", !.velocity = 0], n)
        ELSE Result([d EXCEPT !.z = z], n)

StateLogic(d, n, dt) ==
  CASE d.state = "TAKING_OFF"  -> TakingOff(d, n, dt)
    [] d.state = "NAVIGATING"  -> Navigating(d, n, dt)
    [] d.state = "HOVERING"    -> Hovering(d, n)
    [] d.state = "SEARCHING"   -> Searching(d, n, dt)
    [] d.state = "MATCH_FOUND" -> MatchFound(d, n)
    [] d.state = "RETURN_HOME" -> ReturnHome(d, n, dt)
    [] d.state = "LANDING"     -> Landing(d, n, dt)
    [] OTHER                   -> Result(d, n)

\* Mutant: update without the early return for LANDED.
update_NoLandedGuard(d, n, dt) ==
  Only({IF r.returned THEN r
        ELSE [r EXCEPT !.drone = PhysicsAndBattery(r.drone, dt)]
          : r \in {StateLogic(d, n, dt)}})

\* Drone.update(dt, nav_system)
update(d, n, dt) ==
  IF d.state = "LANDED" THEN Result(d, n)
  ELSE Only({IF r.returned THEN r
             ELSE [r EXCEPT !.drone = PhysicsAndBattery(r.drone, dt)]
               : r \in {StateLogic(d, n, dt)}})

----------------------------------------------------------------------------
(* vision_system.py: VisionSystem.  A snapshot is [wp, des]: the route      *)
(* waypoint it shows and whether ORB extracts descriptors from it.  A       *)
(* camera frame is [des, knn]: whether ORB extracts descriptors from it and *)
(* the knnMatch result against the reference, a sequence of runs            *)
(* [m, n, count]: count matches of best distance m and second-best n.       *)

\* _preprocess_snapshots
VisionSystem(satellite_snapshots) ==
  [waypoint_features |->
     [i \in 1..Len(satellite_snapshots) |-> satellite_snapshots[i]]]

\* Mutant: a match at exactly 0.7 times the second-best distance is accepted.
RatioTest_NonStrict(m, n) == 10 * m <= RatioTenths * n

\* m.distance < 0.7 * n.distance
RatioTest(m, n) == 10 * m < RatioTenths * n

RECURSIVE NumGoodMatches(_)
NumGoodMatches(knn) ==
  IF knn = <<>> THEN 0
  ELSE (IF RatioTest(Head(knn).m, Head(knn).n) THEN Head(knn).count ELSE 0)
         + NumGoodMatches(Tail(knn))

NoMatch == [success |-> FALSE, confidence |-> 0, compared |-> None,
            raised |-> "none"]

\* Python's list[i]: the 0-based position read, None when it raises IndexError.
PyIndex(len, i) ==
  IF 0 <= i /\ i < len THEN i
  ELSE IF -len <= i /\ i < 0 THEN i + len
  ELSE None

\* confidence in hundredths; compared is the 0-based reference matched against.
\* ORB returns descriptors exactly when it returns keypoints, so
\* total_target_kp > 0 wherever des_target is not None.
match_waypoint(v, camera, waypoint_index) ==
  LET len == Len(v.waypoint_features)
      at == PyIndex(len, waypoint_index)
  IN  IF waypoint_index >= len THEN NoMatch
      ELSE IF at = None THEN [NoMatch EXCEPT !.raised = "IndexError"]
      ELSE IF ~v.waypoint_features[at + 1].des THEN NoMatch
      ELSE IF ~camera.des THEN NoMatch
      ELSE LET num_good_matches == NumGoodMatches(camera.knn)
               confidence == (num_good_matches * 100) \div ConfidenceBaseline
           IN  [success    |-> confidence >= ConfidenceThresholdPct,
                confidence |-> confidence,
                compared   |-> at,
                raised     |-> "none"]

----------------------------------------------------------------------------
(* simulation_main.py: construction and the main loop. *)

\* The i-th waypoint of the mission route (0 is the start position): legs of
\* 60 m, alternately east and north.
LegLength == 600

Waypoint(i) == <<LegLength * ((i + 1) \div 2), LegLength * (i \div 2)>>

Routes == {[i \in 1..len |-> Waypoint(i - 1)] : len \in 2..MaxWaypoints}

\* Python strings are sequences of code points.  str(i), for i >= 0.
RECURSIVE str(_)
str(i) == IF i < 10 THEN <<48 + i>> ELSE str(i \div 10) \o <<48 + (i % 10)>>

\* name.replace(' ', '_')
ReplaceSpaces(name) ==
  [k \in 1..Len(name) |-> IF name[k] = 32 THEN 95 ELSE name[k]]

\* f"waypoint_{i-1}_{name.replace(' ', '_')}.png"
SnapshotFilename(i, name) ==
  <<119, 97, 121, 112, 111, 105, 110, 116, 95>> \o str(i - 1) \o <<95>>
    \o ReplaceSpaces(name) \o <<46, 112, 110, 103>>

\* a < b on Python strings: by code point, a proper prefix first.
RECURSIVE StrLess(_, _)
StrLess(a, b) ==
  IF b = <<>> THEN FALSE
  ELSE IF a = <<>> THEN TRUE
  ELSE IF a[1] # b[1] THEN a[1] < b[1]
  ELSE StrLess(Tail(a), Tail(b))

\* filename.endswith(".png")
EndsWithPng(filename) ==
  /\ Len(filename) >= 4
  /\ SubSeq(filename, Len(filename) - 3, Len(filename)) = <<46, 112, 110, 103>>

\* The names of the waypoints of route.json, start position first: "Home",
\* "WP 1", "WP 2", ... or "Home", "A", "B", ...
WaypointNames(style, len) ==
  [i \in 1..len |->
     IF i = 1 THEN <<72, 111, 109, 101>>
     ELSE IF style = 1 THEN <<87, 80, 32>> \o str(i - 1)
     ELSE <<65 + ((i - 2) % 26)>>]

\* assets/waypoint_snapshots after generate_snapshots.py has run on a route
\* with these waypoint names: one file per destination waypoint i (the
\* waypoint at route index i), except those whose download failed the
\* validation.  img.wp is the route index of the waypoint the image shows.
generate_snapshots(names, skipped) ==
  {[filename |-> SnapshotFilename(i, names[i + 1]),
    img      |-> [wp |-> i, des |-> TRUE]]
     : i \in (1..(Len(names) - 1)) \ skipped}

\* satellite_snapshots: the .png files of sorted(os.listdir(dir)), loaded.
satellite_snapshots(dir) ==
  Only({[k \in 1..Cardinality(pngs) |->
           (CHOOSE f \in pngs :
              Cardinality({g \in pngs : StrLess(g.filename, f.filename)})
                = k - 1).img]
          : pngs \in {{f \in dir : EndsWithPng(f.filename)}}})

\* The reference images the loop loads for a route whose snapshots were all
\* generated.
Snapshots(route) ==
  satellite_snapshots(generate_snapshots(WaypointNames(1, Len(route)), {}))

\* What the camera can show: a view that matches the reference, a view that
\* falls short of the baseline, a view without features.
MatchingFrame == [des |-> TRUE, knn |-> <<[m |-> 6, n |-> 10, count |-> 25]>>]

FailingFrames ==
  {[des |-> TRUE,  knn |-> <<[m |-> 6, n |-> 10, count |-> 24],
                             [m |-> 7, n |-> 10, count |-> 3]>>],
   [des |-> FALSE, knn |-> <<>>]}

CameraFrames(e) ==
  IF e.attempts < MaxMatchAt THEN {MatchingFrame} \cup FailingFrames
  ELSE FailingFrames

NoAttempt == [attempted |-> FALSE, index |-> None, success |-> FALSE,
              confidence |-> 0, compared |-> None]

Init ==
  \E route \in Routes :
    /\ drone = Drone(route[1], StartAlt)
    /\ nav = NavigationSystem(route)
    /\ vision = VisionSystem(Snapshots(route))
    /\ match_attempted = FALSE
    /\ last_search_match_time = 0
    /\ raised = "none"
    /\ env \in [frame_dt : 1..MaxDt, attempts : {0}, failed : {FALSE}]
    /\ last = [before |-> "INIT", updated |-> "INIT", dt |-> 0,
               battery |-> FullBattery, vision |-> NoAttempt]

\* The wall clock advances by w: every reading kept gets w older.
AdvanceClock(d, w) ==
  [d EXCEPT !.hover_start_time = Aged(@, w),
            !.match_found_time = Aged(@, w),
            !.search_start_time = Aged(@, w)]

\* current_time - last_search_match_time > SEARCH_MATCH_INTERVAL
SearchMatchDue(age) == 10 * age > SearchMatchIntervalTenths * UnitsPerSec

\* should_attempt_match, from the state Drone.update left.
ShouldAttemptMatch(state, attempted, age) ==
  \/ state = "HOVERING" /\ ~attempted
  \/ state = "SEARCHING" /\ SearchMatchDue(age)

\* Mutant: the route index is passed as the reference index.
SnapshotIdxToMatch_NoOffset(n) == n.current_waypoint_idx

\* snapshot_idx_to_match
SnapshotIdxToMatch(n) == n.current_waypoint_idx - 1

\* Mutant: a failed attempt in HOVERING does not start the search.
MatchOutcome_StayHovering(d, res) ==
  IF res.success THEN confirm_match(d) ELSE d

\* The outcome of an attempt on the vehicle.
MatchOutcome(d, res) ==
  IF res.success THEN confirm_match(d)
  ELSE IF d.state = "HOVERING" THEN [d EXCEPT !.state = "SEARCHING"]
  ELSE d

\* Mutant: drone.update runs before nav_system.update.
LoopUpdate_NavLast(d, n, dt, wall) ==
  Only({IF up.raised # "none" THEN up
        ELSE Only({IF nu.raised # "none"
                     THEN Raise(up.drone, nu.nav, nu.raised)
                     ELSE [up EXCEPT !.nav = nu.nav]
                       : nu \in {nav_update(up.nav, up.drone.pos)}})
          : up \in {update(AdvanceClock(d, wall), n, dt)}})

\* nav_system.update(drone.lat, drone.lon); drone.update(dt, nav_system), with
\* the wall clock wall later than at the previous iteration.
LoopUpdate(d, n, dt, wall) ==
  Only({IF nu.raised # "none"
          THEN Raise(AdvanceClock(d, wall), nu.nav, nu.raised)
          ELSE update(AdvanceClock(d, wall), nu.nav, dt)
            : nu \in {nav_update(n, d.pos)}})

\* The vision system logic of the loop after the update up; age is
\* current_time - last_search_match_time.
LoopVision(up, v, attempted, age, camera) ==
  Only({Only({Only({
    [drone   |-> d2,
     nav     |-> up.nav,
     raised  |-> IF up.raised # "none" THEN up.raised ELSE res.raised,
     match_attempted |->
       IF up.raised # "none" \/ res.raised # "none"
         THEN attempted \/ (attempt /\ up.drone.state = "HOVERING")
         ELSE d2.state = "HOVERING"
                /\ (attempted \/ (attempt /\ up.drone.state = "HOVERING")),
     last_search_match_time |->
       IF attempt /\ up.drone.state = "SEARCHING" THEN 0 ELSE age,
     updated |-> up.drone.state,
     attempt |-> attempt,
     index   |-> SnapshotIdxToMatch(up.nav),
     res     |-> res]
      : d2 \in {IF attempt /\ res.raised = "none"
                  THEN MatchOutcome(up.drone, res)
                  ELSE up.drone}})
      : res \in {IF attempt
                   THEN match_waypoint(v, camera, SnapshotIdxToMatch(up.nav))
                   ELSE NoMatch}})
      : attempt \in {up.raised = "none"
                       /\ ShouldAttemptMatch(up.drone.state, attempted, age)}})

\* The body of the main loop as a function of what it reads: since the
\* previous iteration time.time() has advanced by wall and
\* pygame.time.get_ticks() by ticks.
LoopBody(d, n, v, attempted, search_match_time, dt, wall, ticks, camera) ==
  Only({LoopVision(up, v, attempted, Aged(search_match_time, ticks), camera)
          : up \in {LoopUpdate(d, n, dt, wall)}})

\* What the camera may still show after the iteration b.
EnvAfter(e, b) ==
  [e EXCEPT !.attempts = IF ~b.attempt THEN @
                         ELSE IF b.res.success THEN 0
                         ELSE Min(@ + 1, MaxMatchAt),
            !.failed = @ \/ (b.attempt /\ ~b.res.success)]

\* The iteration b takes effect.
LoopAssign(b, dt) ==
  /\ drone' = b.drone
  /\ nav' = b.nav
  /\ raised' = b.raised
  /\ match_attempted' = b.match_attempted
  /\ last_search_match_time' = b.last_search_match_time
  /\ last' = [before  |-> drone.state,
              updated |-> b.updated,
              dt      |-> dt,
              battery |-> drone.battery,
              vision  |-> IF b.attempt
                            THEN [attempted  |-> TRUE,
                                  index      |-> b.index,
                                  success    |-> b.res.success,
                                  confidence |-> b.res.confidence,
                                  compared   |-> b.res.compared]
                            ELSE NoAttempt]
  /\ UNCHANGED vision

\* One iteration of the main loop: dt = clock.tick(30) / 1000.0, then
\* nav_system.update, drone.update and the vision system logic.  Both clocks
\* advance by dt.
LoopIteration(dt, camera) ==
  /\ raised = "none"
  /\ \E b \in {LoopBody(drone, nav, vision, match_attempted,
                         last_search_match_time, dt, dt, dt, camera)} :
       /\ LoopAssign(b, dt)
       /\ env' = EnvAfter(env, b)

Next == \E camera \in CameraFrames(env) : LoopIteration(env.frame_dt, camera)

Spec == Init /\ [][Next]_vars

\* "while running:" keeps iterating.
FairSpec == Spec /\ WF_vars(Next)

----------------------------------------------------------------------------
(* match_waypoint called on its own: any reference set, frame and index. *)

MaxRefs == 2

\* For each reference, whether ORB extracts descriptors from it.
ReferenceSets == UNION {[1..k -> BOOLEAN] : k \in 0..MaxRefs}

VisionInit ==
  /\ vision \in {VisionSystem([i \in 1..Len(r) |-> [wp |-> i, des |-> r[i]]])
                   : r \in ReferenceSets}
  /\ drone = Drone(Waypoint(0), StartAlt)
  /\ nav = NavigationSystem(<<Waypoint(0), Waypoint(1)>>)
  /\ match_attempted = FALSE
  /\ last_search_match_time = 0
  /\ raised = "none"
  /\ env = [frame_dt |-> 1, attempts |-> 0, failed |-> FALSE]
  /\ last = [index |-> None, camera_des |-> FALSE,
             camera |-> [des |-> FALSE, knn |-> <<>>], called |-> FALSE,
             result |-> NoMatch]

MatchCall(camera, waypoint_index) ==
  /\ last' = [index |-> waypoint_index, camera_des |-> camera.des,
              camera |-> camera, called |-> TRUE,
              result |-> match_waypoint(vision, camera, waypoint_index)]
  /\ UNCHANGED <<drone, nav, vision, match_attempted, last_search_match_time,
                 raised, env>>

\* Frames around the success threshold and around the ratio-test limit.
VisionFrames ==
  {MatchingFrame} \cup FailingFrames
    \cup {[des |-> TRUE, knn |-> <<[m |-> m, n |-> 10, count |-> c]>>]
            : m \in 6..8, c \in {0, 1, 24, 25, 26, 100, 101}}

VisionNext ==
  \E camera \in VisionFrames :
    \E waypoint_index \in (-MaxRefs - 1)..(MaxRefs + 1) :
      MatchCall(camera, waypoint_index)

VisionSpec == VisionInit /\ [][VisionNext]_vars

----------------------------------------------------------------------------
(* The claims. *)

Home == Waypoint(0)

HomeOnlyRoute ==
  /\ nav.waypoints = <<Home>>
  /\ nav.current_waypoint_idx = 0
  /\ ~nav.reached_destination

\* C1: with a localizer that never reports a match the vehicle eventually
\* leaves the hover/search cycle in RETURN_HOME (either some attempt matches
\* or RETURN_HOME is reached); RETURN_HOME is entered from SEARCHING only,
\* on a tick whose accumulated search time exceeded 30 s, and in RETURN_HOME
\* the route is the single home waypoint, index 0, reachedDestination false.
C1_FailsafeAbort ==
  /\ <>(last.vision.success \/ drone.state = "RETURN_HOME")
  /\ [](drone.state = "RETURN_HOME" =>
          /\ HomeOnlyRoute
          /\ drone.start_pos_lat_lon = Home
          /\ env.failed)
  /\ [][drone.state # "RETURN_HOME" /\ drone'.state = "RETURN_HOME" =>
          /\ drone.state = "SEARCHING"
          /\ drone.total_search_time + env.frame_dt
               > FailsafeSeconds * UnitsPerSec]_vars

C1_Witness ==
  /\ drone.state = "RETURN_HOME"
  /\ last.before = "SEARCHING"
  /\ HomeOnlyRoute
  /\ drone.pos # Home

\* C2 (as claimed): a tick that starts in RETURN_HOME within the arrival
\* threshold of home initiates landing.
C2_LandsAtHome ==
  (/\ last.before = "RETURN_HOME"
   /\ nav.distance_to_wp # None
   /\ nav.distance_to_wp < WaypointThreshold)
     => drone.state \in {"LANDING", "LANDED"}

ActiveWaypoint == nav.waypoints[nav.current_waypoint_idx + 1]

C4_LandedIsTerminal ==
  [][drone.state = "LANDED" =>
       /\ drone'.state = "LANDED"
       /\ drone'.pos = drone.pos
       /\ drone'.z = drone.z
       /\ drone'.heading = drone.heading
       /\ drone'.velocity = drone.velocity
       /\ drone'.battery = drone.battery
       /\ ~last'.vision.attempted]_vars

C4_Witness ==
  /\ drone.state = "LANDED"
  /\ last.before = "LANDED"
  /\ last.dt > 0

\* C5: while NAVIGATING, HOVERING, SEARCHING, MATCH_FOUND or RETURN_HOME the
\* active waypoint index is inside the route: 0 <= index < len(route).
C5_RouteIndexInRange ==
  drone.state \in {"NAVIGATING", "HOVERING", "SEARCHING", "MATCH_FOUND",
                   "RETURN_HOME"}
    => /\ 0 <= nav.current_waypoint_idx
       /\ nav.current_waypoint_idx < Len(nav.waypoints)

C5_Witness ==
  /\ drone.state = "RETURN_HOME"
  /\ last.before = "RETURN_HOME"
  /\ Len(nav.waypoints) = 1
  /\ nav.current_waypoint_idx = 0

\* C6: every localization attempt of the loop is made in HOVERING or
\* SEARCHING, passes reference index = active route index - 1, which is >= 0,
\* and compares the frame against the reference stored at that index or,
\* when the frame has no descriptors, against none.
C6_LocalizationIndex ==
  last.vision.attempted =>
    /\ last.updated \in {"HOVERING", "SEARCHING"}
    /\ last.vision.index = nav.current_waypoint_idx - 1
    /\ last.vision.index >= 0
    /\ last.vision.compared \in {None, last.vision.index}

C6_Witness ==
  /\ last.vision.attempted
  /\ last.updated = "SEARCHING"
  /\ last.vision.index = 1
  /\ last.vision.compared = 1

\* C7: battery within [0,100], altitude within [0, cruise altitude], heading
\* within [0,360).
C7_VehicleRanges ==
  /\ 0 <= drone.battery /\ drone.battery <= FullBattery
  /\ 0 <= drone.z /\ drone.z <= drone.cruise_altitude
  /\ 0 <= drone.heading /\ drone.heading < 360

C7_Witness ==
  /\ drone.battery = 0
  /\ drone.z = drone.cruise_altitude
  /\ last.battery > 0

\* C8: a tick never raises the battery and never takes it below 0.
C8_BatteryMonotone ==
  [][drone'.battery <= drone.battery /\ drone'.battery >= 0]_vars

C8_Witness ==
  /\ drone.battery = 0
  /\ last.battery = 0
  /\ last.before # "LANDED"
  /\ last.dt > 1

\* C9: a HOVERING episode ends in the loop iteration that begins it, with
\* exactly one localization attempt: a successful attempt leaves the vehicle
\* in MATCH_FOUND, a failed one in SEARCHING.
C9_HoverDebounce ==
  /\ drone.state # "HOVERING"
  /\ ~match_attempted
  /\ last.updated = "HOVERING" =>
       /\ last.before # "HOVERING"
       /\ last.vision.attempted
       /\ drone.state = IF last.vision.success THEN "MATCH_FOUND"
                        ELSE "SEARCHING"

C9_Witness ==
  /\ last.before = "SEARCHING"
  /\ last.updated = "HOVERING"
  /\ last.vision.attempted
  /\ ~last.vision.success
  /\ drone.state = "SEARCHING"

\* C10 (as claimed): match_waypoint called with an index outside
\* 0..len(references)-1, or with a reference or a frame without descriptors,
\* returns success = false and confidence = 0, raises nothing and compares
\* against no reference.
C10_NoMatchNotFault ==
  (/\ last.called
   /\ \/ last.index < 0
      \/ last.index >= Len(vision.waypoint_features)
      \/ ~vision.waypoint_features[last.index + 1].des
      \/ ~last.camera_des)
     => /\ ~last.result.success
        /\ last.result.confidence = 0
        /\ last.result.raised = "none"
        /\ last.result.compared = None

RECURSIVE AcceptedMatches(_)
\* The number of matches whose best distance is strictly below 0.7 times the
\* second-best distance.
AcceptedMatches(knn) ==
  IF knn = <<>> THEN 0
  ELSE (IF 10 * Head(knn).m < 7 * Head(knn).n THEN Head(knn).count ELSE 0)
         + AcceptedMatches(Tail(knn))

\* C11: a call that reaches the comparison returns confidence = n / 100 for
\* the number n of matches with best distance strictly below 0.7 times the
\* second-best, and success exactly when n >= 25.
C11_ConfidenceAndSuccess ==
  (last.called /\ last.result.compared # None) =>
    /\ last.result.confidence = AcceptedMatches(last.camera.knn)
    /\ last.result.success <=> AcceptedMatches(last.camera.knn) >= 25
    /\ last.result.raised = "none"

C11_Witness ==
  /\ last.called
  /\ last.result.compared = 0
  /\ last.result.confidence = 24
  /\ ~last.result.success
  /\ Len(last.camera.knn) = 2

----------------------------------------------------------------------------
(* NavigationSystem called on its own: any route, any sequence of update,  *)
(* advance_waypoint, set_new_route and reset.                               *)

MaxRouteLen == 2

\* Where the vehicle can be at an update: at home, 3 m and exactly 5 m from
\* it, and at the first destination.
NavPositions == {Waypoint(0), <<30, 0>>, <<40, 30>>, Waypoint(1)}

NavRoutes == UNION {[1..k -> {Waypoint(0), Waypoint(1)}] : k \in 0..MaxRouteLen}

NavInit ==
  /\ nav \in {NavigationSystem(route) : route \in NavRoutes}
  /\ last = [op |-> "__init__", pos |-> Waypoint(0), raised |-> "none",
             before |-> NavigationSystem(<<>>)]
  /\ drone = Drone(Waypoint(0), StartAlt)
  /\ vision = VisionSystem(<<>>)
  /\ match_attempted = FALSE
  /\ last_search_match_time = 0
  /\ raised = "none"
  /\ env = [frame_dt |-> 1, attempts |-> 0, failed |-> FALSE]

NavCall(op, pos, result, exception) ==
  /\ nav' = result
  /\ last' = [op |-> op, pos |-> pos, raised |-> exception, before |-> nav]
  /\ UNCHANGED <<drone, vision, match_attempted, last_search_match_time,
                 raised, env>>

NavUpdate(pos) ==
  \E r \in {nav_update(nav, pos)} : NavCall("update", pos, r.nav, r.raised)

NavAdvance == NavCall("advance_waypoint", last.pos, advance_waypoint(nav), "none")

NavSetNewRoute(route) ==
  NavCall("set_new_route", last.pos, set_new_route(nav, route), "none")

NavReset == NavCall("reset", last.pos, nav_reset(nav), "none")

NavNext ==
  \/ \E pos \in NavPositions : NavUpdate(pos)
  \/ NavAdvance
  \/ \E route \in NavRoutes : NavSetNewRoute(route)
  \/ NavReset

NavSpec == NavInit /\ [][NavNext]_vars

\* C12: advance_waypoint on a route not yet completed increments the index
\* and marks the route completed exactly when the new index is past the last
\* waypoint; on a completed route it leaves the index unchanged and the route
\* completed.
C12_AdvanceCompletes ==
  last.op = "advance_waypoint" =>
    /\ nav.waypoints = last.before.waypoints
    /\ IF last.before.reached_destination
         THEN /\ nav.reached_destination
              /\ nav.current_waypoint_idx = last.before.current_waypoint_idx
         ELSE /\ nav.current_waypoint_idx
                   = last.before.current_waypoint_idx + 1
              /\ nav.reached_destination
                   <=> nav.current_waypoint_idx > Len(nav.waypoints) - 1

C12_Witness ==
  /\ last.op = "advance_waypoint"
  /\ last.before.reached_destination
  /\ Len(nav.waypoints) = 2
  /\ nav.current_waypoint_idx = 2

\* C13: update raises nothing; on a completed or empty route it clears
\* distance and bearing, otherwise the active index is inside the route and
\* both are recomputed against waypoints[active index].
C13_UpdateIsTotal ==
  last.op = "update" =>
    /\ last.raised = "none"
    /\ IF nav.reached_destination \/ nav.waypoints = <<>>
         THEN nav.distance_to_wp = None /\ nav.bearing_to_wp = None
         ELSE /\ 0 <= nav.current_waypoint_idx
              /\ nav.current_waypoint_idx < Len(nav.waypoints)
              /\ nav.distance_to_wp = Distance(last.pos, ActiveWaypoint)
              /\ nav.bearing_to_wp = calculate_bearing(last.pos, ActiveWaypoint)

C13_Witness ==
  /\ last.op = "update"
  /\ last.before.distance_to_wp = None
  /\ Len(nav.waypoints) = 2
  /\ nav.current_waypoint_idx = 0
  /\ nav.distance_to_wp = LegLength

\* C14 (as claimed): after an update on a one-waypoint route from a position
\* within the arrival threshold of that waypoint the route is completed.
C14_HomeReachedAtFirstUpdate ==
  (/\ last.op = "update"
   /\ Len(nav.waypoints) = 1
   /\ Distance(last.pos, nav.waypoints[1]) < WaypointThreshold)
     => nav.reached_destination

----------------------------------------------------------------------------
(* The braking logic of the NAVIGATING branch on its own: the speed at any *)
(* distance to the waypoint, from 0 to beyond the braking distance.         *)

MaxBeyondBraking == 3

BrakeDistances == 0..(BrakingDistance + MaxBeyondBraking)

Braked(distance_to_wp) ==
  [distance_to_wp   |-> distance_to_wp,
   current_velocity |-> current_velocity(CruiseVelocity, distance_to_wp)]

BrakeInit ==
  /\ last \in {Braked(d) : d \in BrakeDistances}
  /\ drone = Drone(Waypoint(0), StartAlt)
  /\ nav = NavigationSystem(<<Waypoint(0), Waypoint(1)>>)
  /\ vision = VisionSystem(<<>>)
  /\ match_attempted = FALSE
  /\ last_search_match_time = 0
  /\ raised = "none"
  /\ env = [frame_dt |-> 1, attempts |-> 0, failed |-> FALSE]

BrakeAt(distance_to_wp) ==
  /\ last' = Braked(distance_to_wp)
  /\ UNCHANGED <<drone, nav, vision, match_attempted, last_search_match_time,
                 raised, env>>

BrakeNext == \E d \in BrakeDistances : BrakeAt(d)

BrakeSpec == BrakeInit /\ [][BrakeNext]_vars

\* C15: the speed is the cruise velocity from 30 m on and
\* 3.0 + (cruise - 3.0) * distance / 30 below 30 m: 3.0 at distance 0,
\* strictly between 3.0 and cruise for 0 < distance < 30 m, and never lower
\* at a larger distance.  (Speeds are compared times BrakingDistance.)
C15_BrakingLaw ==
  /\ [](IF last.distance_to_wp >= 300
          THEN last.current_velocity = 150 * BrakingDistance
          ELSE /\ last.current_velocity
                    = 30 * 300 + (150 - 30) * last.distance_to_wp
               /\ last.distance_to_wp = 0 =>
                    last.current_velocity = 30 * BrakingDistance
               /\ last.distance_to_wp > 0 =>
                    /\ 30 * BrakingDistance < last.current_velocity
                    /\ last.current_velocity < 150 * BrakingDistance)
  /\ [][last'.distance_to_wp >= last.distance_to_wp =>
          last'.current_velocity >= last.current_velocity]_vars

C15_Witness ==
  /\ last.distance_to_wp = 299
  /\ last.current_velocity = 149 * 300 + 180

----------------------------------------------------------------------------
(* The search, in the main loop. *)

\* C16 (as claimed): between two consecutive SEARCHING ticks of one search
\* the radius does not decrease, and it never exceeds the maximum radius.
C16_SpiralRadius ==
  [][(last.before = "SEARCHING" /\ drone.state = "SEARCHING") =>
       /\ drone'.search_radius >= drone.search_radius
       /\ drone'.search_radius <= MaxSearchRadius]_vars

\* C17 (as claimed): after a SEARCHING tick the search angle lies in [0,360).
C17_SpiralAngleWraps ==
  last.before = "SEARCHING" =>
    0 <= drone.search_angle /\ drone.search_angle < 360

\* C20 (as claimed): every Drone.update call made in a state other than
\* LANDED leaves battery = max(0, battery before - drain rate * dt).
C20_BatteryDrainsEveryTick ==
  [][drone.state # "LANDED" =>
       drone'.battery = Max(0, drone.battery - env.frame_dt)]_vars

----------------------------------------------------------------------------
(* Two runs of the main loop side by side: both get the same dt and the    *)
(* same camera frame at every iteration, and differ in how far time.time() *)
(* advances per iteration: by dt in the first run, by a fixed amount of    *)
(* its own in the second.  The runs are followed up to the first iteration *)
(* that leaves them in different flight states.                             *)

MaxWallDt == 2

Twin(d, n, attempted, search_match_time, exception, wall_dt) ==
  [drone |-> d, nav |-> n, match_attempted |-> attempted,
   last_search_match_time |-> search_match_time, raised |-> exception,
   wall_dt |-> wall_dt]

TwinInit ==
  \E route \in Routes, dt \in 1..MaxDt, wall_dt \in 0..MaxWallDt :
    /\ drone = Drone(route[1], StartAlt)
    /\ nav = NavigationSystem(route)
    /\ vision = VisionSystem(Snapshots(route))
    /\ match_attempted = FALSE
    /\ last_search_match_time = 0
    /\ raised = "none"
    /\ env = [frame_dt |-> dt, attempts |-> 0, failed |-> FALSE,
              twin |-> Twin(Drone(route[1], StartAlt), NavigationSystem(route),
                            FALSE, 0, "none", wall_dt)]
    /\ last = [before |-> "INIT", updated |-> "INIT", dt |-> 0,
               battery |-> FullBattery, vision |-> NoAttempt]

TwinIteration(dt, camera) ==
  /\ raised = "none"
  /\ env.twin.raised = "none"
  /\ env.twin.drone.state = drone.state
  /\ \E b \in {LoopBody(drone, nav, vision, match_attempted,
                         last_search_match_time, dt, dt, dt, camera)} :
     \E t \in {LoopBody(env.twin.drone, env.twin.nav, vision,
                         env.twin.match_attempted,
                         env.twin.last_search_match_time,
                         dt, env.twin.wall_dt, dt, camera)} :
       /\ LoopAssign(b, dt)
       /\ env' = [EnvAfter(env, b) EXCEPT
                    !.twin = Twin(t.drone, t.nav, t.match_attempted,
                                  t.last_search_match_time, t.raised,
                                  env.twin.wall_dt)]

TwinNext ==
  \E camera \in CameraFrames(env) : TwinIteration(env.frame_dt, camera)

TwinSpec == TwinInit /\ [][TwinNext]_vars

\* C18 (as claimed): two runs given the same dt sequence and the same
\* camera frames are in the same flight state after every iteration,
\* whatever the wall clock read during them.
C18_TimersAreSimulationTime == env.twin.drone.state = drone.state

----------------------------------------------------------------------------
(* The Drone's operations called in any order: update (after the           *)
(* navigator's update), confirm_match, initiate_landing and reset_position. *)

MaxCalls == 8

DroneInit ==
  /\ drone = Drone(Waypoint(0), StartAlt)
  /\ nav = NavigationSystem(<<Waypoint(0), Waypoint(1)>>)
  /\ vision = VisionSystem(<<>>)
  /\ match_attempted = FALSE
  /\ last_search_match_time = 0
  /\ raised = "none"
  /\ env \in [frame_dt : 1..MaxDt, attempts : {0}, failed : {FALSE},
               calls : {0}]
  /\ last = [op |-> "__init__", before |-> "INIT"]

DroneCall(op, result) ==
  /\ raised = "none"
  /\ env.calls < MaxCalls
  /\ drone' = result.drone
  /\ nav' = result.nav
  /\ raised' = result.raised
  /\ env' = [env EXCEPT !.calls = @ + 1]
  /\ last' = [op |-> op, before |-> drone.state]
  /\ UNCHANGED <<vision, match_attempted, last_search_match_time>>

DroneUpdate(dt) ==
  \E up \in {LoopUpdate(drone, nav, dt, dt)} : DroneCall("update", up)

DroneConfirmMatch == DroneCall("confirm_match", Result(confirm_match(drone), nav))

DroneInitiateLanding ==
  DroneCall("initiate_landing", Result(initiate_landing(drone), nav))

DroneResetPosition(new_pos_lat_lon, new_alt) ==
  DroneCall("reset_position",
            Result(reset_position(drone, new_pos_lat_lon, new_alt), nav))

DroneNext ==
  \/ DroneUpdate(env.frame_dt)
  \/ DroneConfirmMatch
  \/ DroneInitiateLanding
  \/ DroneResetPosition(Waypoint(0), StartAlt)

DroneSpec == DroneInit /\ [][DroneNext]_vars

\* C19 (as claimed): after every Drone operation the state field is a
\* member of the DroneState enum.
C19_StateIsStrictlyTyped == drone.state \in DroneState

----------------------------------------------------------------------------
(* Dwells and timers, in the main loop. *)

\* C21 (as claimed): an attempt made in HOVERING is made at least 2 s after
\* HOVERING was entered.
C21_HoverDwellPrecedesAttempt ==
  (last.vision.attempted /\ last.updated = "HOVERING") =>
    /\ drone.hover_start_time # None
    /\ drone.hover_start_time >= HoverSeconds * UnitsPerSec

C23_ReturnHomeAfterLastWaypoint ==
  [][(/\ drone.state = "MATCH_FOUND"
      /\ drone'.state # "MATCH_FOUND"
      /\ nav.current_waypoint_idx = Len(nav.waypoints) - 1)
       => drone'.state = "RETURN_HOME"]_vars

\* C24 (as claimed): a RETURN_HOME tick closer than 30 m to home moves the
\* vehicle by the distance the braking law of NAVIGATING gives (at most the
\* distance left), along the bearing to home.
C24_BrakingOnTheWayHome ==
  [][(/\ drone.state = "RETURN_HOME"
      /\ nav'.distance_to_wp # None
      /\ nav'.distance_to_wp > 0
      /\ nav'.distance_to_wp < BrakingDistance)
       => drone'.pos
            = Destination(drone.pos, nav'.bearing_to_wp,
                          Min(BrakedDistanceThisFrame(CruiseVelocity,
                                                      nav'.distance_to_wp,
                                                      env.frame_dt),
                              nav'.distance_to_wp))]_vars

\* time.time() - self.search_start_time as the coming tick of a vehicle in
\* SEARCHING reads it: 0 on the tick that starts the segment.
TimeInSearch ==
  IF drone.search_start_time = NotStarted THEN 0
  ELSE Aged(drone.search_start_time, env.frame_dt)

\* C25: a tick that starts in SEARCHING leaves Drone.update in HOVERING
\* exactly when more than 5 s have elapsed in the segment; the attempt that
\* follows in the same iteration, if it fails, finds the segment timer reset,
\* the hover timer restarted and the total search time kept and increased by
\* the frame time.
C25_SearchSegmentTimeout ==
  [][drone.state = "SEARCHING" =>
       IF TimeInSearch > SegmentSeconds * UnitsPerSec
         THEN /\ last'.updated = "HOVERING"
              /\ last'.vision.attempted
              /\ ~last'.vision.success =>
                   /\ drone'.state = "SEARCHING"
                   /\ drone'.search_start_time = NotStarted
                   /\ drone'.hover_start_time = 0
                   /\ drone'.total_search_time
                        = drone.total_search_time + env.frame_dt
         ELSE last'.updated # "HOVERING"]_vars

C25_Witness ==
  /\ last.before = "SEARCHING"
  /\ last.updated = "HOVERING"
  /\ ~last.vision.success
  /\ drone.search_start_time = NotStarted
  /\ drone.total_search_time > 2 * SegmentSeconds * UnitsPerSec

\* C26 (as claimed): a tick that starts in SEARCHING and brings the total
\* search time above 30 s leaves Drone.update in RETURN_HOME with the route
\* made of the home position alone.
C26_FailsafeNotPreempted ==
  [][(/\ drone.state = "SEARCHING"
      /\ FailsafeTripped(drone.total_search_time + env.frame_dt))
       => /\ last'.updated = "RETURN_HOME"
          /\ nav'.waypoints = <<drone.start_pos_lat_lon>>]_vars

\* C27 (as claimed): after the tick on which the failsafe fires, the total
\* search time and the search start time are both back at their initial
\* values.
C27_FailsafeResetsAccumulators ==
  (last.before = "SEARCHING" /\ last.updated = "RETURN_HOME") =>
    /\ drone.total_search_time = 0
    /\ drone.search_start_time = NotStarted

\* C28: an attempt that succeeds leaves the vehicle in MATCH_FOUND with the
\* segment timer and the total search time at zero; both stay at zero through
\* MATCH_FOUND and NAVIGATING, so the hover at the next waypoint starts with
\* nothing charged.
C28_MatchResetsSearchBudget ==
  /\ (last.vision.attempted /\ last.vision.success) =>
       /\ last.updated \in {"HOVERING", "SEARCHING"}
       /\ drone.state = "MATCH_FOUND"
       /\ drone.match_found_time = 0
       /\ drone.search_start_time = NotStarted
       /\ drone.total_search_time = 0
  /\ (drone.state \in {"MATCH_FOUND", "NAVIGATING"} \/ last.before = "NAVIGATING") =>
       /\ drone.search_start_time = NotStarted
       /\ drone.total_search_time = 0

C28_Witness ==
  /\ last.before = "SEARCHING"
  /\ last.updated = "SEARCHING"
  /\ last.vision.success
  /\ drone.state = "MATCH_FOUND"
  /\ nav.current_waypoint_idx = 2
  /\ env.failed

\* The edges of the flight state graph that C29 permits.
PermittedTransitions ==
  {<<"IDLE", "TAKING_OFF">>, <<"TAKING_OFF", "NAVIGATING">>,
   <<"NAVIGATING", "HOVERING">>, <<"HOVERING", "NAVIGATING">>,
   <<"HOVERING", "SEARCHING">>, <<"HOVERING", "MATCH_FOUND">>,
   <<"SEARCHING", "HOVERING">>, <<"SEARCHING", "MATCH_FOUND">>,
   <<"SEARCHING", "RETURN_HOME">>, <<"MATCH_FOUND", "NAVIGATING">>,
   <<"MATCH_FOUND", "LANDING">>, <<"MATCH_FOUND", "RETURN_HOME">>,
   <<"NAVIGATING", "LANDING">>, <<"RETURN_HOME", "LANDING">>,
   <<"LANDING", "LANDED">>}

\* C29: in every iteration of the loop the change of state made by
\* Drone.update and the change made by the match outcome after it are each
\* no change or a permitted edge, every state is a member of DroneState, and
\* an iteration that starts in LANDED ends in LANDED.
C29_OnlyPermittedTransitions ==
  /\ drone.state \in DroneState
  /\ last.before # "INIT" =>
       /\ last.before = last.updated
            \/ <<last.before, last.updated>> \in PermittedTransitions
       /\ last.updated = drone.state
            \/ <<last.updated, drone.state>> \in PermittedTransitions
       /\ last.before = "LANDED" => drone.state = "LANDED"

C29_Witness ==
  /\ last.before = "LANDING"
  /\ drone.state = "LANDED"
  /\ env.failed
  /\ Len(nav.waypoints) = MaxWaypoints
  /\ nav.current_waypoint_idx = MaxWaypoints - 1

\* C30: a tick that starts in NAVIGATING leaves Drone.update in HOVERING
\* exactly when the distance the navigator computed for that tick is below
\* 5 m, and then the vehicle, after the motion of that tick, is closer than
\* 5 m to the active waypoint.
C30_Arrival ==
  last.before = "NAVIGATING" =>
    /\ last.updated \in {"NAVIGATING", "HOVERING"}
    /\ last.updated = "HOVERING"
         <=> (nav.distance_to_wp # None
                /\ nav.distance_to_wp < WaypointThreshold)
    /\ last.updated = "HOVERING"
         => Distance(drone.pos, ActiveWaypoint) < WaypointThreshold

C30_Witness ==
  /\ last.before = "NAVIGATING"
  /\ last.updated = "HOVERING"
  /\ nav.current_waypoint_idx = 2
  /\ nav.distance_to_wp > 0

\* speed * dt of the coming tick of a vehicle in NAVIGATING or RETURN_HOME,
\* distance_to_wp away from its target.
DistanceThisFrame(d, distance_to_wp, dt) ==
  IF d.state = "NAVIGATING"
    THEN BrakedDistanceThisFrame(d.velocity, distance_to_wp, dt)
    ELSE (d.velocity * dt) \div UnitsPerSec

\* C31: a tick in NAVIGATING or RETURN_HOME moves the vehicle along the
\* bearing to the target by min(speed * dt, distance to the target); after it
\* the vehicle is no farther from the target than before and has travelled
\* no more than the distance that was left.
C31_NoOvershoot ==
  [][(/\ drone.state \in {"NAVIGATING", "RETURN_HOME"}
      /\ nav'.distance_to_wp # None)
       => \E moved \in {Min(DistanceThisFrame(drone, nav'.distance_to_wp,
                                                env.frame_dt),
                             nav'.distance_to_wp)} :
            /\ drone'.pos = IF moved > 0
                              THEN Destination(drone.pos, nav'.bearing_to_wp,
                                               moved)
                              ELSE drone.pos
            /\ Distance(drone.pos, drone'.pos) <= nav'.distance_to_wp
            /\ Distance(drone'.pos,
                        nav'.waypoints[nav'.current_waypoint_idx + 1])
                 <= nav'.distance_to_wp]_vars

C31_Witness ==
  /\ last.before = "RETURN_HOME"
  /\ nav.distance_to_wp > 0
  /\ nav.distance_to_wp < (drone.velocity * last.dt) \div UnitsPerSec
  /\ Distance(drone.pos, Home) <= 1

\* C32 (as claimed): once the search for a waypoint has begun (the total
\* search time is no longer zero), a tick that starts in SEARCHING leaves
\* the search centre where it was.
C32_SearchCentreFixed ==
  [][(drone.state = "SEARCHING" /\ drone.total_search_time > 0)
       => drone'.search_center = drone.search_center]_vars

----------------------------------------------------------------------------
(* generate_snapshots.py followed by the snapshot loading of               *)
(* simulation_main.py, for routes of up to MaxDestinations destinations.   *)

MaxDestinations == 11

SnapshotInit ==
  /\ \E n \in 1..MaxDestinations, style \in 1..2 :
       /\ nav = NavigationSystem([i \in 1..(n + 1) |-> Waypoint(i - 1)])
       /\ last = [stage |-> "route", names |-> WaypointNames(style, n + 1),
                  skipped |-> {}, dir |-> {}]
  /\ drone = Drone(Waypoint(0), StartAlt)
  /\ vision = VisionSystem(<<>>)
  /\ match_attempted = FALSE
  /\ last_search_match_time = 0
  /\ raised = "none"
  /\ env = [frame_dt |-> 1, attempts |-> 0, failed |-> FALSE]

\* generate_snapshots.py runs; the downloads of the waypoints in skipped fail
\* the validation.
GenerateSnapshots(skipped) ==
  /\ last.stage = "route"
  /\ last' = [last EXCEPT !.stage = "generated", !.skipped = skipped,
                          !.dir = generate_snapshots(last.names, skipped)]
  /\ UNCHANGED <<drone, nav, vision, match_attempted, last_search_match_time,
                 raised, env>>

\* simulation_main.py loads the snapshots and constructs the VisionSystem.
LoadSnapshots ==
  /\ last.stage = "generated"
  /\ vision' = VisionSystem(satellite_snapshots(last.dir))
  /\ last' = [last EXCEPT !.stage = "loaded"]
  /\ UNCHANGED <<drone, nav, match_attempted, last_search_match_time,
                 raised, env>>

SnapshotNext ==
  \/ \E skipped \in {{}} \cup {{i} : i \in 1..(Len(last.names) - 1)} :
       GenerateSnapshots(skipped)
  \/ LoadSnapshots

SnapshotSpec == SnapshotInit /\ [][SnapshotNext]_vars

\* C33 (as claimed): when every snapshot was generated, the reference at
\* index i (0-based) of the loaded VisionSystem is the image of the waypoint
\* at route index i + 1, for every route.
C33_ReferenceSetFollowsRoute ==
  (last.stage = "loaded" /\ last.skipped = {}) =>
    /\ Len(vision.waypoint_features) = Len(nav.waypoints) - 1
    /\ \A k \in 1..Len(vision.waypoint_features) :
         vision.waypoint_features[k].wp = k

\* C34: a tick in LANDING leaves the position alone and lowers the altitude
\* by descent_speed * dt, a strict decrease; the tick that brings it to 0.1 m
\* or below sets altitude 0 and velocity 0 and enters LANDED.  Every LANDED
\* state has altitude 0 and velocity 0.
C34_LandingCompletes ==
  /\ [](drone.state = "LANDED" => (drone.z = 0 /\ drone.velocity = 0))
  /\ [][drone.state = "LANDING" =>
          \E z \in {drone.z - (DescentSpeed * env.frame_dt) \div UnitsPerSec} :
            /\ drone'.pos = drone.pos
            /\ IF z <= LandedAltitude
                 THEN /\ drone'.state = "LANDED"
                      /\ drone'.z = 0
                      /\ drone'.velocity = 0
                 ELSE /\ drone'.state = "LANDING"
                      /\ drone'.z = z
                      /\ drone'.z < drone.z
                      /\ drone'.velocity = drone.velocity]_vars

C34_Witness ==
  /\ last.before = "LANDING"
  /\ drone.state = "LANDED"
  /\ drone.z = 0
  /\ drone.velocity = 0
  /\ last.dt = 1

\* C35: whenever a tick in NAVIGATING or RETURN_HOME moves the vehicle, the
\* navigator's distance and bearing are those from the position the vehicle
\* had at the start of the tick to the waypoint then active, and the motion
\* is the one these values give.
C35_NavigationStatusFresh ==
  [][(/\ drone.state \in {"NAVIGATING", "RETURN_HOME"}
      /\ drone'.pos # drone.pos)
       => \E target \in {nav.waypoints[nav.current_waypoint_idx + 1]} :
          \E dist \in {Distance(drone.pos, target)} :
          \E bearing \in {calculate_bearing(drone.pos, target)} :
            /\ nav'.distance_to_wp = dist
            /\ nav'.bearing_to_wp = bearing
            /\ drone'.heading = bearing
            /\ drone'.pos
                 = Destination(drone.pos, bearing,
                               Min(DistanceThisFrame(drone, dist, env.frame_dt),
                                   dist))]_vars

\* The first tick after advance_waypoint: the distance is the whole leg from
\* the waypoint just confirmed to the next one.
C35_Witness ==
  /\ last.before = "NAVIGATING"
  /\ nav.current_waypoint_idx = 2
  /\ nav.distance_to_wp = Distance(Waypoint(1), Waypoint(2))
  /\ drone.pos # Waypoint(1)

\* C36 (as claimed): a tick that enters HOVERING, from NAVIGATING or from
\* SEARCHING, sets the hover start time to the time of that tick.
C36_HoverTimerStarted ==
  (last.before \in {"NAVIGATING", "SEARCHING"} /\ last.updated = "HOVERING")
    => drone.hover_start_time = 0

====
